---- MODULE Spec2Model ----
(***************************************************************************)
(* Order-progress workflow of the dashboard: the progress store, the       *)
(* order status, and the three generations of server actions that write    *)
(* them (the modular services behind OrderProgressServiceManager, the      *)
(* FormData actions, and the first object-based actions), plus the         *)
(* cancelOrder / completeOrder transitions of the order actions.           *)
(***************************************************************************)
EXTENDS Integers, FiniteSets, Sequences, TLC

VARIABLES
    orderStatus,   \* db.order: order id -> status, for the orders that exist
    progress,      \* db.orderProgress: record id -> [order_id, stage, data]
    response       \* what the last server action returned: "none" before any
                   \* call and for a call that returns nothing, "success" for { success: true }, "error" for a failure,
                   \* or the success message of cancelOrder / completeOrder
VARIABLE
    calls          \* the create requests in flight: caller -> the step the
                   \* request has reached, its input, and what it returned

vars == <<orderStatus, progress, response, calls>>

(***************************************************************************)
(* Bounds and value sets                                                   *)
(***************************************************************************)

\* Order ids callers may pass; which of them exist is decided by Init.
Orders == {"o1", "o2"}

\* The callers whose requests may be in flight at the same time.
Callers == {"c1", "c2"}

\* How many records of one (order, stage) pair the store can hold in the
\* model.  The store itself has no unique constraint, so a second copy is
\* representable.
MaxCopies == 2

stages == <<"warehouse", "shipping", "applied", "result">>

ProgressStage == {stages[i] : i \in 1..Len(stages)}

indexOf(stage) == CHOOSE i \in 1..Len(stages) : stages[i] = stage

\* Record ids.  The database generates an opaque unique id per record; the
\* model names the k-th coexisting record of (order, stage) <<order, stage, k>>.
Ids == Orders \X ProgressStage \X (1..MaxCopies)

\* An absent optional number of a JSON payload.
Undefined == -1

\* The clock the shipping validator compares dates with, and the instants
\* payloads carry (the last one lies in the future).
Now == 2

Dates == 1..(Now + 1)

\* A JSON payload: every field the four stage shapes know, absent ones
\* "undefined" / Undefined.
Payload(st, ds, dr, est, act, yld) ==
    [status |-> st, date_shipping |-> ds, date_received |-> dr,
     est_applied_area |-> est, actual_applied_area |-> act, yield_amount |-> yld]

EmptyData == Payload("undefined", Undefined, Undefined, Undefined, Undefined, Undefined)

\* The payloads callers submit.
Payloads ==
    { Payload("true",  Undefined, Undefined, Undefined, Undefined, Undefined),
      Payload("false", Undefined, Undefined, Undefined, Undefined, Undefined),
      Payload("true",  1,         Undefined, Undefined, Undefined, Undefined),
      Payload("true",  1,         2,         Undefined, Undefined, Undefined),
      Payload("false", Undefined, 1,         Undefined, Undefined, Undefined),
      Payload("undefined", Undefined, Undefined, 10,    Undefined, Undefined),
      Payload("undefined", Undefined, Undefined, 0,     Undefined, Undefined),
      Payload("true",  Undefined, Undefined, Undefined, Undefined, 50) }

OrderStatus == {"pending", "warehouse", "shipped", "delivered", "completed", "cancelled"}

(***************************************************************************)
(* Store queries                                                           *)
(***************************************************************************)

\* db.orderProgress.findMany({ where: { order_id, stage } }) as a set of ids.
findIds(prog, orderId, stage) ==
    {id \in DOMAIN prog : prog[id].order_id = orderId /\ prog[id].stage = stage}

\* The record findFirst / find returns when there is one: the oldest copy.
firstId(prog, orderId, stage) ==
    CHOOSE id \in findIds(prog, orderId, stage) :
        \A other \in findIds(prog, orderId, stage) : id[3] <= other[3]

\* The id the database gives a new record of (orderId, stage).
newId(orderId, stage) ==
    <<orderId, stage,
      CHOOSE k \in 1..MaxCopies :
          /\ <<orderId, stage, k>> \notin DOMAIN progress
          /\ \A j \in 1..(k - 1) : <<orderId, stage, j>> \in DOMAIN progress>>

canAllocate(orderId, stage) ==
    \E k \in 1..MaxCopies : <<orderId, stage, k>> \notin DOMAIN progress

\* The ids a caller can name: every stored record, and one id of no record.
missingId == <<"o2", "result", MaxCopies>>

CallerIds == DOMAIN progress \cup {missingId}

insert(prog, id, rec) ==
    [i \in DOMAIN prog \cup {id} |-> IF i = id THEN rec ELSE prog[i]]

remove(prog, id) == [i \in DOMAIN prog \ {id} |-> prog[i]]

setData(prog, id, data) == [prog EXCEPT ![id].data = data]

truthy(status) == status = "true"

isBoolean(status) == status \in {"true", "false"}

defined(n) == n # Undefined

(***************************************************************************)
(* base-service.ts                                                         *)
(***************************************************************************)

determineOrderStatus(prog, orderId) ==
    LET hasShipping  == findIds(prog, orderId, "shipping") # {}
        shippingData == prog[firstId(prog, orderId, "shipping")].data
        hasWarehouse == findIds(prog, orderId, "warehouse") # {}
        warehouseData == prog[firstId(prog, orderId, "warehouse")].data
    IN  IF hasShipping /\ defined(shippingData.date_received)
            THEN "delivered"
        ELSE IF hasShipping /\ truthy(shippingData.status)
                            /\ defined(shippingData.date_shipping)
            THEN "shipped"
        ELSE IF hasWarehouse /\ truthy(warehouseData.status)
            THEN "warehouse"
        ELSE "pending"

\* updateOrderStatus: the order row takes the derived status.
updateOrderStatus(status, prog, orderId) ==
    [status EXCEPT ![orderId] = determineOrderStatus(prog, orderId)]

\* validateOrder throws unless the order exists and is not cancelled.
validateOrder(orderId) ==
    /\ orderId \in DOMAIN orderStatus
    /\ orderStatus[orderId] # "cancelled"

\* checkExistingProgress with the lookup result dropped: nothing is ever found.
checkExistingProgressNothingFound(orderId, stage) == FALSE

checkExistingProgress(orderId, stage) == findIds(progress, orderId, stage) # {}

(***************************************************************************)
(* schema/order-progress: the zod schemas.  parse keeps the fields of the  *)
(* schema's shape and drops every other key.                               *)
(***************************************************************************)

schemaAccepts(stage, data) ==
    CASE stage = "warehouse" -> isBoolean(data.status)
      [] stage = "shipping"  -> isBoolean(data.status)
      [] stage = "applied"   ->
            /\ defined(data.est_applied_area) /\ data.est_applied_area > 0
            /\ (defined(data.actual_applied_area) => data.actual_applied_area > 0)
      [] stage = "result"    -> isBoolean(data.status)

schemaParse(stage, data) ==
    CASE stage = "warehouse" -> [EmptyData EXCEPT !.status = data.status]
      [] stage = "shipping"  -> [EmptyData EXCEPT !.status = data.status,
                                                  !.date_shipping = data.date_shipping,
                                                  !.date_received = data.date_received]
      [] stage = "applied"   -> [EmptyData EXCEPT !.est_applied_area = data.est_applied_area,
                                                  !.actual_applied_area = data.actual_applied_area]
      [] stage = "result"    -> [EmptyData EXCEPT !.status = data.status,
                                                  !.yield_amount = data.yield_amount]

\* The first object-based schema file: the data union tries WarehouseDataSchema
\* first, which accepts any object with a boolean status and keeps only it.
unionAccepts(data) == isBoolean(data.status)

unionParse(data) == [EmptyData EXCEPT !.status = data.status]

validateStageData(stage, data) ==
    CASE stage = "warehouse" -> isBoolean(data.status)
      [] stage = "shipping"  -> isBoolean(data.status)
      [] stage = "applied"   ->
            /\ isBoolean(data.status)
            /\ (defined(data.est_applied_area) => data.est_applied_area > 0)
      [] stage = "result"    ->
            /\ isBoolean(data.status)
            /\ (defined(data.yield_amount) => data.yield_amount > 0)

(***************************************************************************)
(* The per-stage validators of the modular services                        *)
(***************************************************************************)

MaxAmount == 1000000

validateWarehouseData(data) == isBoolean(data.status)

validateShippingData(data) ==
    /\ isBoolean(data.status)
    /\ (defined(data.date_shipping) => ~(data.date_shipping > Now))
    /\ (defined(data.date_received) =>
            /\ ~(data.date_received > Now)
            /\ (defined(data.date_shipping) => ~(data.date_received < data.date_shipping)))
    /\ ~(truthy(data.status) /\ ~defined(data.date_shipping))
    /\ ~(defined(data.date_received) /\ ~truthy(data.status))

validateAppliedData(data) ==
    /\ defined(data.est_applied_area)
    /\ ~(data.est_applied_area <= 0)
    /\ ~(data.est_applied_area > MaxAmount)
    /\ (defined(data.actual_applied_area) =>
            LET diff == data.actual_applied_area - data.est_applied_area
                variance == IF diff < 0 THEN 0 - diff ELSE diff
            IN  /\ ~(data.actual_applied_area < 0)
                /\ ~(data.actual_applied_area > MaxAmount)
                /\ ~(2 * variance > data.est_applied_area))

validateResultData(data) ==
    /\ isBoolean(data.status)
    /\ ~(truthy(data.status) /\ ~defined(data.yield_amount))
    /\ (defined(data.yield_amount) =>
            /\ ~(data.yield_amount < 0)
            /\ ~(data.yield_amount > MaxAmount)
            /\ ~(~truthy(data.status) /\ data.yield_amount > 0))

validateData(stage, data) ==
    CASE stage = "warehouse" -> validateWarehouseData(data)
      [] stage = "shipping"  -> validateShippingData(data)
      [] stage = "applied"   -> validateAppliedData(data)
      [] stage = "result"    -> validateResultData(data)

(***************************************************************************)
(* The business rules a modular create checks                              *)
(***************************************************************************)

validateWarehouseBusinessRules(orderId) ==
    ~checkExistingProgress(orderId, "warehouse")

validateShippingBusinessRules(orderId) ==
    /\ ~checkExistingProgress(orderId, "shipping")
    /\ findIds(progress, orderId, "warehouse") # {}
    /\ truthy(progress[firstId(progress, orderId, "warehouse")].data.status)

validateAppliedBusinessRules(orderId) ==
    /\ ~checkExistingProgress(orderId, "applied")
    /\ findIds(progress, orderId, "shipping") # {}
    /\ LET shippingData == progress[firstId(progress, orderId, "shipping")].data
       IN  /\ truthy(shippingData.status)
           /\ defined(shippingData.date_shipping)
           /\ defined(shippingData.date_received)

validateResultBusinessRules(orderId) ==
    /\ ~checkExistingProgress(orderId, "result")
    /\ findIds(progress, orderId, "applied") # {}
    /\ LET appliedData == progress[firstId(progress, orderId, "applied")].data
       IN  /\ defined(appliedData.est_applied_area)
           /\ appliedData.est_applied_area > 0

validateBusinessRules(stage, orderId) ==
    CASE stage = "warehouse" -> validateWarehouseBusinessRules(orderId)
      [] stage = "shipping"  -> validateShippingBusinessRules(orderId)
      [] stage = "applied"   -> validateAppliedBusinessRules(orderId)
      [] stage = "result"    -> validateResultBusinessRules(orderId)

(***************************************************************************)
(* Initial state: order o1 exists and is pending, no progress is recorded. *)
(* Order o2 does not exist, so a call that names it meets "Order not       *)
(* found".                                                                 *)
(***************************************************************************)

\* A caller with no request in flight.
IdleCall ==
    [pc |-> "idle", order_id |-> "o1", stage |-> "warehouse", data |-> EmptyData,
     response |-> "none"]

Init ==
    /\ orderStatus = [o \in {"o1"} |-> "pending"]
    /\ progress = [id \in {} |-> [order_id |-> "o1", stage |-> "warehouse", data |-> EmptyData]]
    /\ response = "none"
    /\ calls = [c \in Callers |-> IdleCall]

\* A server action that returns { success: false } and has written nothing.
Rejected ==
    /\ response' = "error"
    /\ UNCHANGED <<orderStatus, progress>>

(***************************************************************************)
(* The modular services (warehouse-, shipping-, applied-, result-service)  *)
(* behind OrderProgressServiceManager                                      *)
(***************************************************************************)

\* service.create(input), the same steps in each of the four services.
serviceCreateAccepts(stage, orderId, data) ==
    /\ validateOrder(orderId)
    /\ schemaAccepts(stage, data)
    /\ validateData(stage, schemaParse(stage, data))
    /\ validateBusinessRules(stage, orderId)

serviceCreate(stage, orderId, data) ==
    IF serviceCreateAccepts(stage, orderId, data)
    THEN /\ canAllocate(orderId, stage)
         /\ progress' = insert(progress, newId(orderId, stage),
                               [order_id |-> orderId, stage |-> stage,
                                data |-> schemaParse(stage, data)])
         /\ orderStatus' = updateOrderStatus(orderStatus, progress', orderId)
         /\ response' = "success"
    ELSE Rejected

\* service.update(id, input): the service is the one of input.stage, the order
\* validated and re-derived is input.order_id, the record written is id.
serviceUpdateAccepts(stage, id, orderId, data) ==
    /\ validateOrder(orderId)
    /\ schemaAccepts(stage, data)
    /\ validateData(stage, schemaParse(stage, data))
    /\ id \in DOMAIN progress

serviceUpdate(stage, id, orderId, data) ==
    IF serviceUpdateAccepts(stage, id, orderId, data)
    THEN /\ progress' = setData(progress, id, schemaParse(stage, data))
         /\ orderStatus' = updateOrderStatus(orderStatus, progress', orderId)
         /\ response' = "success"
    ELSE Rejected

\* The records a service's delete refuses to orphan.
dependentStages(stage) ==
    CASE stage = "warehouse" -> {}
      [] stage = "shipping"  -> {"applied", "result"}
      [] stage = "applied"   -> {"result"}
      [] stage = "result"    -> {}

\* service.delete(id) of the service of `stage`.
serviceDeleteAccepts(stage, id) ==
    /\ id \in DOMAIN progress
    /\ \A dep \in dependentStages(stage) :
           findIds(progress, progress[id].order_id, dep) = {}

serviceDelete(stage, id) ==
    IF serviceDeleteAccepts(stage, id)
    THEN /\ progress' = remove(progress, id)
         /\ orderStatus' = updateOrderStatus(orderStatus, progress', progress[id].order_id)
         /\ response' = "success"
    ELSE Rejected

\* OrderProgressServiceManager
createProgress(orderId, stage, data) == serviceCreate(stage, orderId, data)

updateProgress(id, orderId, stage, data) == serviceUpdate(stage, id, orderId, data)

deleteProgress(id, stage) == serviceDelete(stage, id)

\* deleteOrderProgress of the modular API: the service is the one of the
\* stored record's stage.
deleteOrderProgressAccepts(id) ==
    /\ id \in DOMAIN progress
    /\ serviceDeleteAccepts(progress[id].stage, id)

deleteOrderProgress(id) ==
    IF id \in DOMAIN progress
    THEN deleteProgress(id, progress[id].stage)
    ELSE Rejected

(***************************************************************************)
(* The FormData server actions (createOrderProgress, updateOrderProgress,  *)
(* deleteOrderProgress taking FormData), with their own copy of the status *)
(* derivation                                                              *)
(***************************************************************************)

formDetermineOrderStatus(prog, orderId) ==
    LET hasShipping  == findIds(prog, orderId, "shipping") # {}
        shippingData == prog[firstId(prog, orderId, "shipping")].data
        hasWarehouse == findIds(prog, orderId, "warehouse") # {}
        warehouseData == prog[firstId(prog, orderId, "warehouse")].data
    IN  IF hasShipping /\ defined(shippingData.date_received)
            THEN "delivered"
        ELSE IF hasShipping /\ truthy(shippingData.status)
                            /\ defined(shippingData.date_shipping)
            THEN "shipped"
        ELSE IF hasWarehouse /\ truthy(warehouseData.status)
            THEN "warehouse"
        ELSE "pending"

formUpdateOrderStatus(status, prog, orderId) ==
    [status EXCEPT ![orderId] = formDetermineOrderStatus(prog, orderId)]

formCreateAccepts(orderId, stage, data) ==
    /\ orderId \in DOMAIN orderStatus
    /\ orderStatus[orderId] # "cancelled"
    /\ schemaAccepts(stage, data)
    /\ findIds(progress, orderId, stage) = {}

formCreateOrderProgress(orderId, stage, data) ==
    IF formCreateAccepts(orderId, stage, data)
    THEN /\ canAllocate(orderId, stage)
         /\ progress' = insert(progress, newId(orderId, stage),
                               [order_id |-> orderId, stage |-> stage,
                                data |-> schemaParse(stage, data)])
         /\ orderStatus' = formUpdateOrderStatus(orderStatus, progress', orderId)
         /\ response' = "success"
    ELSE Rejected

formUpdateAccepts(id, orderId, stage, data) ==
    /\ orderId \in DOMAIN orderStatus
    /\ orderStatus[orderId] # "cancelled"
    /\ schemaAccepts(stage, data)
    /\ id \in DOMAIN progress

formUpdateOrderProgress(id, orderId, stage, data) ==
    IF formUpdateAccepts(id, orderId, stage, data)
    THEN /\ progress' = setData(progress, id, schemaParse(stage, data))
         /\ orderStatus' = formUpdateOrderStatus(orderStatus, progress', orderId)
         /\ response' = "success"
    ELSE Rejected

formDeleteAccepts(id) ==
    /\ id \in DOMAIN progress
    /\ orderStatus[progress[id].order_id] # "cancelled"

formDeleteOrderProgress(id) ==
    IF formDeleteAccepts(id)
    THEN /\ progress' = remove(progress, id)
         /\ response' = "success"
         /\ UNCHANGED orderStatus
    ELSE Rejected

(***************************************************************************)
(* The first, object-based server actions (order-progress/index.ts)        *)
(***************************************************************************)

oldCreateAccepts(orderId, stage, data) ==
    /\ unionAccepts(data)
    /\ validateStageData(stage, unionParse(data))
    /\ orderId \in DOMAIN orderStatus
    /\ findIds(progress, orderId, stage) = {}

oldCreateOrderProgress(orderId, stage, data) ==
    IF oldCreateAccepts(orderId, stage, data)
    THEN /\ canAllocate(orderId, stage)
         /\ progress' = insert(progress, newId(orderId, stage),
                               [order_id |-> orderId, stage |-> stage,
                                data |-> unionParse(data)])
         /\ response' = "success"
         /\ UNCHANGED orderStatus
    ELSE Rejected

oldUpdateAccepts(id, data) ==
    /\ unionAccepts(data)
    /\ id \in DOMAIN progress
    /\ validateStageData(progress[id].stage, unionParse(data))

oldUpdateOrderProgress(id, data) ==
    IF oldUpdateAccepts(id, data)
    THEN /\ progress' = setData(progress, id, unionParse(data))
         /\ response' = "success"
         /\ UNCHANGED orderStatus
    ELSE Rejected

oldDeleteAccepts(id) == id \in DOMAIN progress

oldDeleteOrderProgress(id) ==
    IF oldDeleteAccepts(id)
    THEN /\ progress' = remove(progress, id)
         /\ response' = "success"
         /\ UNCHANGED orderStatus
    ELSE Rejected

(***************************************************************************)
(* The status functions the modular API file keeps "for backward           *)
(* compatibility"                                                          *)
(***************************************************************************)

stageFlag(prog, orderId, stage) ==
    /\ findIds(prog, orderId, stage) # {}
    /\ \E last \in findIds(prog, orderId, stage) :
          /\ \A other \in findIds(prog, orderId, stage) : other[3] <= last[3]
          /\ IF stage = "applied"
                THEN /\ defined(prog[last].data.est_applied_area)
                     /\ prog[last].data.est_applied_area > 0
                ELSE truthy(prog[last].data.status)

legacyDetermineOrderStatus(prog, orderId) ==
    IF stageFlag(prog, orderId, "result") THEN "completed"
    ELSE IF stageFlag(prog, orderId, "applied") THEN "delivered"
    ELSE IF stageFlag(prog, orderId, "shipping") THEN "shipped"
    ELSE IF stageFlag(prog, orderId, "warehouse") THEN "warehouse"
    ELSE "pending"

\* Returns nothing ("none"); a failed write (no such order) is logged and
\* swallowed.
legacyUpdateOrderStatus(orderId) ==
    /\ orderStatus' = IF orderId \in DOMAIN orderStatus
                         THEN [orderStatus EXCEPT
                                 ![orderId] = legacyDetermineOrderStatus(progress, orderId)]
                         ELSE orderStatus
    /\ response' = "none"
    /\ UNCHANGED progress

(***************************************************************************)
(* cancelOrder and completeOrder of the order actions, called by the       *)
(* signed-in owner of the order                                            *)
(***************************************************************************)

\* cancelOrder without its check for a completed order.
cancelOrderAcceptsCompleted(id) ==
    /\ id \in DOMAIN orderStatus
    /\ orderStatus[id] # "cancelled"

cancelOrderAccepts(id) ==
    /\ id \in DOMAIN orderStatus
    /\ orderStatus[id] # "cancelled"
    /\ orderStatus[id] # "completed"

cancelOrder(id) ==
    IF cancelOrderAccepts(id)
    THEN /\ orderStatus' = [orderStatus EXCEPT ![id] = "cancelled"]
         /\ response' = "Order cancelled successfully!"
         /\ UNCHANGED progress
    ELSE Rejected

completeOrderAccepts(id) ==
    /\ id \in DOMAIN orderStatus
    /\ orderStatus[id] # "completed"
    /\ orderStatus[id] # "cancelled"
    /\ findIds(progress, id, "result") # {}
    /\ truthy(progress[firstId(progress, id, "result")].data.status)

completeOrder(id) ==
    IF completeOrderAccepts(id)
    THEN /\ orderStatus' = [orderStatus EXCEPT ![id] = "completed"]
         /\ response' = "Order completed successfully!"
         /\ UNCHANGED progress
    ELSE Rejected

(***************************************************************************)
(* Specification                                                           *)
(***************************************************************************)

\* Every rejected call returns an error and writes nothing, so all of them
\* lead to the same successor: Next takes the accepted calls one by one and
\* the rejected calls of every operation together.
everyCallAccepted ==
    /\ \A o \in Orders, s \in ProgressStage, d \in Payloads :
          /\ serviceCreateAccepts(s, o, d)
          /\ formCreateAccepts(o, s, d)
          /\ oldCreateAccepts(o, s, d)
    /\ \A id \in CallerIds, o \in Orders, s \in ProgressStage, d \in Payloads :
          /\ serviceUpdateAccepts(s, id, o, d)
          /\ formUpdateAccepts(id, o, s, d)
          /\ oldUpdateAccepts(id, d)
    /\ \A id \in CallerIds, s \in ProgressStage :
          /\ serviceDeleteAccepts(s, id)
          /\ deleteOrderProgressAccepts(id)
          /\ formDeleteAccepts(id)
          /\ oldDeleteAccepts(id)
    /\ \A o \in Orders : cancelOrderAccepts(o) /\ completeOrderAccepts(o)

RejectedCall == ~everyCallAccepted /\ Rejected

\* The stage and order a caller sends along with a record id are the record's
\* own, as in every call the repository's forms and index-new make.
ownCall(id, orderId, stage) ==
    id \in DOMAIN progress =>
        (progress[id].order_id = orderId /\ progress[id].stage = stage)

Next ==
    \/ \E o \in Orders, s \in ProgressStage, d \in Payloads :
          serviceCreateAccepts(s, o, d) /\ createProgress(o, s, d) /\ UNCHANGED calls
    \/ \E id \in CallerIds, o \in Orders, s \in ProgressStage, d \in Payloads :
          ownCall(id, o, s) /\ serviceUpdateAccepts(s, id, o, d) /\ updateProgress(id, o, s, d) /\ UNCHANGED calls
    \/ \E id \in CallerIds, s \in ProgressStage, o \in Orders :
          ownCall(id, o, s) /\ serviceDeleteAccepts(s, id) /\ deleteProgress(id, s) /\ UNCHANGED calls
    \/ \E id \in CallerIds : deleteOrderProgressAccepts(id) /\ deleteOrderProgress(id) /\ UNCHANGED calls
    \/ \E o \in Orders, s \in ProgressStage, d \in Payloads :
          formCreateAccepts(o, s, d) /\ formCreateOrderProgress(o, s, d) /\ UNCHANGED calls
    \/ \E id \in CallerIds, o \in Orders, s \in ProgressStage, d \in Payloads :
          ownCall(id, o, s) /\ formUpdateAccepts(id, o, s, d) /\ formUpdateOrderProgress(id, o, s, d) /\ UNCHANGED calls
    \/ \E id \in CallerIds : formDeleteAccepts(id) /\ formDeleteOrderProgress(id) /\ UNCHANGED calls
    \/ \E o \in Orders, s \in ProgressStage, d \in Payloads :
          oldCreateAccepts(o, s, d) /\ oldCreateOrderProgress(o, s, d) /\ UNCHANGED calls
    \/ \E id \in CallerIds, d \in Payloads :
          oldUpdateAccepts(id, d) /\ oldUpdateOrderProgress(id, d) /\ UNCHANGED calls
    \/ \E id \in CallerIds : oldDeleteAccepts(id) /\ oldDeleteOrderProgress(id) /\ UNCHANGED calls
    \/ \E o \in Orders : legacyUpdateOrderStatus(o) /\ UNCHANGED calls
    \/ \E o \in Orders : cancelOrderAccepts(o) /\ cancelOrder(o) /\ UNCHANGED calls
    \/ \E o \in Orders : completeOrderAccepts(o) /\ completeOrder(o) /\ UNCHANGED calls
    \/ RejectedCall /\ UNCHANGED calls

\* Payloads sent with a foreign stage or order: one complete payload of each
\* shape.
ForeignPayloads ==
    { Payload("true", Undefined, Undefined, Undefined, Undefined, Undefined),
      Payload("true", 1, 2, Undefined, Undefined, Undefined),
      Payload("undefined", Undefined, Undefined, 10, Undefined, Undefined) }

\* Calls in which the stage or order sent along with a record id is not the
\* record's own; the server actions take whatever the caller sends.
ForeignCall ==
    \/ \E id \in DOMAIN progress, o \in Orders, s \in ProgressStage, d \in ForeignPayloads :
          ~ownCall(id, o, s) /\ serviceUpdateAccepts(s, id, o, d) /\ updateProgress(id, o, s, d) /\ UNCHANGED calls
    \/ \E id \in DOMAIN progress, o \in Orders, s \in ProgressStage, d \in ForeignPayloads :
          ~ownCall(id, o, s) /\ formUpdateAccepts(id, o, s, d) /\ formUpdateOrderProgress(id, o, s, d) /\ UNCHANGED calls
    \/ \E id \in DOMAIN progress, s \in ProgressStage :
          s # progress[id].stage /\ serviceDeleteAccepts(s, id) /\ deleteProgress(id, s) /\ UNCHANGED calls

NextAnyCaller == Next \/ ForeignCall

Spec == Init /\ [][Next]_vars

SpecAnyCaller == Init /\ [][NextAnyCaller]_vars

(***************************************************************************)
(* Storage faults: db.order.update of updateOrderStatus throws after the   *)
(* record write went through.  No handler runs in a transaction; the catch *)
(* block returns { success: false } and the record write stays.            *)
(***************************************************************************)

serviceCreateStatusWriteFails(stage, orderId, data) ==
    /\ serviceCreateAccepts(stage, orderId, data)
    /\ canAllocate(orderId, stage)
    /\ progress' = insert(progress, newId(orderId, stage),
                          [order_id |-> orderId, stage |-> stage,
                           data |-> schemaParse(stage, data)])
    /\ response' = "error"
    /\ UNCHANGED orderStatus

serviceUpdateStatusWriteFails(stage, id, orderId, data) ==
    /\ serviceUpdateAccepts(stage, id, orderId, data)
    /\ progress' = setData(progress, id, schemaParse(stage, data))
    /\ response' = "error"
    /\ UNCHANGED orderStatus

serviceDeleteStatusWriteFails(stage, id) ==
    /\ serviceDeleteAccepts(stage, id)
    /\ progress' = remove(progress, id)
    /\ response' = "error"
    /\ UNCHANGED orderStatus

formCreateStatusWriteFails(orderId, stage, data) ==
    /\ formCreateAccepts(orderId, stage, data)
    /\ canAllocate(orderId, stage)
    /\ progress' = insert(progress, newId(orderId, stage),
                          [order_id |-> orderId, stage |-> stage,
                           data |-> schemaParse(stage, data)])
    /\ response' = "error"
    /\ UNCHANGED orderStatus

formUpdateStatusWriteFails(id, orderId, stage, data) ==
    /\ formUpdateAccepts(id, orderId, stage, data)
    /\ progress' = setData(progress, id, schemaParse(stage, data))
    /\ response' = "error"
    /\ UNCHANGED orderStatus

StatusWriteFails ==
    \/ \E o \in Orders, s \in ProgressStage, d \in Payloads :
          serviceCreateStatusWriteFails(s, o, d) /\ UNCHANGED calls
    \/ \E id \in DOMAIN progress, d \in Payloads :
          serviceUpdateStatusWriteFails(progress[id].stage, id, progress[id].order_id, d) /\ UNCHANGED calls
    \/ \E id \in DOMAIN progress :
          serviceDeleteStatusWriteFails(progress[id].stage, id) /\ UNCHANGED calls
    \/ \E o \in Orders, s \in ProgressStage, d \in Payloads :
          formCreateStatusWriteFails(o, s, d) /\ UNCHANGED calls
    \/ \E id \in DOMAIN progress, d \in Payloads :
          formUpdateStatusWriteFails(id, progress[id].order_id, progress[id].stage, d) /\ UNCHANGED calls

NextFaulty == Next \/ StatusWriteFails

SpecFaulty == Init /\ [][NextFaulty]_vars

(***************************************************************************)
(* The read-only queries: the services' isCompleted, the manager's         *)
(* stage-status, next-stage and summary queries, and getProgressStagesStatus*)
(* of the FormData actions                                                 *)
(***************************************************************************)

\* service.isCompleted(orderId) of the service of `stage`.
isCompleted(prog, stage, orderId) ==
    /\ findIds(prog, orderId, stage) # {}
    /\ LET data == prog[firstId(prog, orderId, stage)].data
       IN  CASE stage = "warehouse" -> truthy(data.status)
             [] stage = "shipping"  -> truthy(data.status) /\ defined(data.date_shipping)
             [] stage = "applied"   -> data.est_applied_area > 0
             [] stage = "result"    -> isBoolean(data.status)

isStageCompleted(prog, orderId, stage) == isCompleted(prog, stage, orderId)

getAllStagesStatus(prog, orderId) ==
    [s \in ProgressStage |-> isStageCompleted(prog, orderId, s)]

\* getNextAvailableStage with the loop running from the last stage backwards.
getNextAvailableStageFromLast(prog, orderId) ==
    IF \E i \in 1..Len(stages) : ~isStageCompleted(prog, orderId, stages[i])
    THEN stages[CHOOSE i \in 1..Len(stages) :
                    /\ ~isStageCompleted(prog, orderId, stages[i])
                    /\ \A j \in (i + 1)..Len(stages) : isStageCompleted(prog, orderId, stages[j])]
    ELSE "null"

\* "null" stands for the null the queries return.
getNextAvailableStage(prog, orderId) ==
    IF \E i \in 1..Len(stages) : ~isStageCompleted(prog, orderId, stages[i])
    THEN stages[CHOOSE i \in 1..Len(stages) :
                    /\ ~isStageCompleted(prog, orderId, stages[i])
                    /\ \A j \in 1..(i - 1) : isStageCompleted(prog, orderId, stages[j])]
    ELSE "null"

\* getProgressSummary with nextStageIndex lacking its "+ 1".
getProgressSummaryNoIncrement(prog, orderId) ==
    LET allStatus       == getAllStagesStatus(prog, orderId)
        completedStages == {s \in ProgressStage : allStatus[s]}
        currentStage    == getNextAvailableStage(prog, orderId)
        nextStageIndex  == IF currentStage # "null" THEN indexOf(currentStage) - 1 ELSE -1
        nextStage       == IF nextStageIndex >= 0 /\ nextStageIndex < Len(stages)
                              THEN stages[nextStageIndex + 1] ELSE "null"
    IN  [orderId         |-> orderId,
         completedStages |-> completedStages,
         currentStage    |-> currentStage,
         nextStage       |-> nextStage,
         overallProgress |-> (Cardinality(completedStages) * 100) \div Len(stages),
         isCompleted     |-> Cardinality(completedStages) = Len(stages)]

getProgressSummary(prog, orderId) ==
    LET allStatus       == getAllStagesStatus(prog, orderId)
        completedStages == {s \in ProgressStage : allStatus[s]}
        currentStage    == getNextAvailableStage(prog, orderId)
        \* stages.indexOf is 0-based; nextStageIndex is the 0-based index of the
        \* stage after currentStage, -1 when currentStage is null
        nextStageIndex  == IF currentStage # "null" THEN (indexOf(currentStage) - 1) + 1 ELSE -1
        nextStage       == IF nextStageIndex >= 0 /\ nextStageIndex < Len(stages)
                              THEN stages[nextStageIndex + 1] ELSE "null"
    IN  [orderId         |-> orderId,
         completedStages |-> completedStages,
         currentStage    |-> currentStage,
         nextStage       |-> nextStage,
         overallProgress |-> (Cardinality(completedStages) * 100) \div Len(stages),
         isCompleted     |-> Cardinality(completedStages) = Len(stages)]

\* getProgressStagesStatus of the FormData actions: the completed flag per stage.
getProgressStagesStatus(prog, orderId) ==
    [s \in ProgressStage |->
        /\ findIds(prog, orderId, s) # {}
        /\ LET data == prog[firstId(prog, orderId, s)].data
           IN  CASE s = "warehouse" -> isBoolean(data.status) /\ truthy(data.status)
                 [] s = "shipping"  -> isBoolean(data.status) /\ truthy(data.status)
                 [] s = "applied"   -> defined(data.est_applied_area) /\ data.est_applied_area > 0
                 [] s = "result"    -> truthy(data.status)]

(***************************************************************************)
(* Concurrent creates.  service.create awaits the database at each step:   *)
(* validateOrder, the business-rule reads (checkExistingProgress first),   *)
(* db.orderProgress.create, updateOrderStatus.  Nothing puts these steps   *)
(* in one transaction, so the steps of two requests interleave.            *)
(***************************************************************************)

\* The payloads of the concurrent requests: a complete one for each stage.
ConcurrentPayloads ==
    { Payload("true", Undefined, Undefined, Undefined, Undefined, Undefined),
      Payload("true", 1, 2, Undefined, Undefined, Undefined),
      Payload("undefined", Undefined, Undefined, 10, Undefined, Undefined),
      Payload("true", Undefined, Undefined, Undefined, Undefined, 50) }

\* The request of caller c returns result.
returns(c, result) ==
    /\ calls' = [calls EXCEPT ![c].pc = "done", ![c].response = result]
    /\ response' = IF result = "success" THEN "success" ELSE "error"

\* A caller with no request in flight calls service.create(input).
createCalled(c, stage, orderId, data) ==
    /\ calls[c].pc \in {"idle", "done"}
    /\ calls' = [calls EXCEPT ![c] = [pc |-> "validateOrder", order_id |-> orderId,
                                      stage |-> stage, data |-> data,
                                      response |-> "none"]]
    /\ UNCHANGED <<orderStatus, progress, response>>

\* await validateOrder, then the schema parse and the data validation.
createValidates(c) ==
    LET call == calls[c] IN
    /\ call.pc = "validateOrder"
    /\ IF /\ validateOrder(call.order_id)
          /\ schemaAccepts(call.stage, call.data)
          /\ validateData(call.stage, schemaParse(call.stage, call.data))
       THEN /\ calls' = [calls EXCEPT ![c].pc = "validateBusinessRules"]
            /\ UNCHANGED response
       ELSE returns(c, "error")
    /\ UNCHANGED <<orderStatus, progress>>

\* await validate<Stage>BusinessRules: checkExistingProgress throws
\* "Progress for <stage> stage already exists", the prerequisite reads throw
\* their own errors.
createChecksBusinessRules(c) ==
    LET call == calls[c] IN
    /\ call.pc = "validateBusinessRules"
    /\ IF checkExistingProgress(call.order_id, call.stage)
       THEN returns(c, "already exists")
       ELSE IF ~validateBusinessRules(call.stage, call.order_id)
            THEN returns(c, "error")
            ELSE /\ calls' = [calls EXCEPT ![c].pc = "create"]
                 /\ UNCHANGED response
    /\ UNCHANGED <<orderStatus, progress>>

\* await db.orderProgress.create.
createWrites(c) ==
    LET call == calls[c] IN
    /\ call.pc = "create"
    /\ canAllocate(call.order_id, call.stage)
    /\ progress' = insert(progress, newId(call.order_id, call.stage),
                          [order_id |-> call.order_id, stage |-> call.stage,
                           data |-> schemaParse(call.stage, call.data)])
    /\ calls' = [calls EXCEPT ![c].pc = "updateOrderStatus"]
    /\ UNCHANGED <<orderStatus, response>>

\* await updateOrderStatus, then return { success: true }.
createUpdatesOrderStatus(c) ==
    LET call == calls[c] IN
    /\ call.pc = "updateOrderStatus"
    /\ orderStatus' = updateOrderStatus(orderStatus, progress, call.order_id)
    /\ returns(c, "success")
    /\ UNCHANGED progress

NextConcurrent ==
    \/ \E c \in Callers, s \in ProgressStage, o \in Orders, d \in ConcurrentPayloads :
          createCalled(c, s, o, d)
    \/ \E c \in Callers : createValidates(c)
    \/ \E c \in Callers : createChecksBusinessRules(c)
    \/ \E c \in Callers : createWrites(c)
    \/ \E c \in Callers : createUpdatesOrderStatus(c)

SpecConcurrent == Init /\ [][NextConcurrent]_vars

(***************************************************************************)
(* Two orders.  The update and delete of the services take the record id   *)
(* and, separately, the order id and stage of the input: the order that is *)
(* validated and whose status is re-derived is the one the caller names.   *)
(***************************************************************************)

\* Both orders exist and are pending, no progress is recorded.
InitTwoOrders ==
    /\ orderStatus = [o \in Orders |-> "pending"]
    /\ progress = [id \in {} |-> [order_id |-> "o1", stage |-> "warehouse", data |-> EmptyData]]
    /\ response = "none"
    /\ calls = [c \in Callers |-> IdleCall]

\* The payloads sent in the two-order runs.
TwoOrderPayloads ==
    { Payload("true", Undefined, Undefined, Undefined, Undefined, Undefined),
      Payload("false", Undefined, Undefined, Undefined, Undefined, Undefined),
      Payload("true", 1, 2, Undefined, Undefined, Undefined) }

\* The stages written in the two-order runs.
TwoOrderStages == {"warehouse", "shipping"}

NextTwoOrders ==
    \/ \E o \in Orders, s \in TwoOrderStages, d \in TwoOrderPayloads :
          serviceCreateAccepts(s, o, d) /\ createProgress(o, s, d) /\ UNCHANGED calls
    \/ \E id \in DOMAIN progress, o \in Orders, d \in TwoOrderPayloads :
          /\ serviceUpdateAccepts(progress[id].stage, id, o, d)
          /\ updateProgress(id, o, progress[id].stage, d)
          /\ UNCHANGED calls
    \/ \E id \in DOMAIN progress :
          /\ serviceDeleteAccepts(progress[id].stage, id)
          /\ deleteProgress(id, progress[id].stage)
          /\ UNCHANGED calls
    \/ RejectedCall /\ UNCHANGED calls

SpecTwoOrders == InitTwoOrders /\ [][NextTwoOrders]_vars

(***************************************************************************)
(* Concurrent stage mutations of one order.  create and update of a        *)
(* service await, in turn: validateOrder, (create only) the business-rule  *)
(* reads, the record write, the findMany of determineOrderStatus and the   *)
(* db.order.update of updateOrderStatus.  cancelOrder may run in between.  *)
(***************************************************************************)

\* The inputs of the racing mutations: stage and payload, each valid for its
\* service.
RaceInputs ==
    { <<"warehouse", Payload("true", Undefined, Undefined, Undefined, Undefined, Undefined)>>,
      <<"warehouse", Payload("false", Undefined, Undefined, Undefined, Undefined, Undefined)>>,
      <<"shipping", Payload("true", 1, 2, Undefined, Undefined, Undefined)>> }

\* A caller with no mutation in flight.
IdleMutation ==
    [pc |-> "idle", op |-> "create", id |-> missingId, order_id |-> "o1",
     stage |-> "warehouse", data |-> EmptyData, newStatus |-> "none",
     response |-> "none"]

InitRace ==
    /\ orderStatus = [o \in {"o1"} |-> "pending"]
    /\ progress = [id \in {} |-> [order_id |-> "o1", stage |-> "warehouse", data |-> EmptyData]]
    /\ response = "none"
    /\ calls = [c \in Callers |-> IdleMutation]

\* The mutation of caller c returns result.
mutationReturns(c, result) ==
    /\ calls' = [calls EXCEPT ![c] = [IdleMutation EXCEPT !.pc = "done",
                                                          !.response = result]]
    /\ response' = result

\* A caller with no mutation in flight calls service.create(input) or
\* service.update(id, input) for a record of the order.
mutationCalled(c, op, id, orderId, stage, data) ==
    /\ calls[c].pc \in {"idle", "done"}
    /\ op = "create" => id = missingId
    /\ op = "update" =>
          /\ id \in DOMAIN progress
          /\ progress[id].order_id = orderId /\ progress[id].stage = stage
    /\ calls' = [calls EXCEPT ![c] = [pc |-> "validateOrder", op |-> op, id |-> id,
                                      order_id |-> orderId, stage |-> stage,
                                      data |-> data, newStatus |-> "none",
                                      response |-> "none"]]
    /\ UNCHANGED <<orderStatus, progress, response>>

\* await validateOrder, then the schema parse and the data validation.
mutationValidates(c) ==
    LET call == calls[c] IN
    /\ call.pc = "validateOrder"
    /\ IF /\ validateOrder(call.order_id)
          /\ schemaAccepts(call.stage, call.data)
          /\ validateData(call.stage, schemaParse(call.stage, call.data))
       THEN /\ calls' = [calls EXCEPT ![c].pc = IF call.op = "create"
                                                   THEN "validateBusinessRules"
                                                   ELSE "write"]
            /\ UNCHANGED response
       ELSE mutationReturns(c, "error")
    /\ UNCHANGED <<orderStatus, progress>>

\* create only: await validate<Stage>BusinessRules.
mutationChecksBusinessRules(c) ==
    LET call == calls[c] IN
    /\ call.pc = "validateBusinessRules"
    /\ IF validateBusinessRules(call.stage, call.order_id)
       THEN /\ calls' = [calls EXCEPT ![c].pc = "write"]
            /\ UNCHANGED response
       ELSE mutationReturns(c, "error")
    /\ UNCHANGED <<orderStatus, progress>>

\* await db.orderProgress.create / db.orderProgress.update.
mutationWrites(c) ==
    LET call == calls[c] IN
    /\ call.pc = "write"
    /\ IF call.op = "create"
       THEN /\ canAllocate(call.order_id, call.stage)
            /\ progress' = insert(progress, newId(call.order_id, call.stage),
                                  [order_id |-> call.order_id, stage |-> call.stage,
                                   data |-> schemaParse(call.stage, call.data)])
       ELSE progress' = setData(progress, call.id, schemaParse(call.stage, call.data))
    /\ calls' = [calls EXCEPT ![c].pc = "determineOrderStatus"]
    /\ UNCHANGED <<orderStatus, response>>

\* updateOrderStatus, first await: determineOrderStatus reads the records.
mutationDerivesStatus(c) ==
    LET call == calls[c] IN
    /\ call.pc = "determineOrderStatus"
    /\ calls' = [calls EXCEPT ![c].pc = "updateOrderStatus",
                              ![c].newStatus = determineOrderStatus(progress, call.order_id)]
    /\ UNCHANGED <<orderStatus, progress, response>>

\* updateOrderStatus, second await: db.order.update writes the status read
\* before; then the service returns { success: true }.
mutationWritesStatus(c) ==
    LET call == calls[c] IN
    /\ call.pc = "updateOrderStatus"
    /\ orderStatus' = [orderStatus EXCEPT ![call.order_id] = call.newStatus]
    /\ mutationReturns(c, "success")
    /\ UNCHANGED progress

NextRace ==
    \/ \E c \in Callers, op \in {"create", "update"}, id \in CallerIds,
          o \in DOMAIN orderStatus, in \in RaceInputs :
          mutationCalled(c, op, id, o, in[1], in[2])
    \/ \E c \in Callers : mutationValidates(c)
    \/ \E c \in Callers : mutationChecksBusinessRules(c)
    \/ \E c \in Callers : mutationWrites(c)
    \/ \E c \in Callers : mutationDerivesStatus(c)
    \/ \E c \in Callers : mutationWritesStatus(c)
    \/ \E o \in Orders : cancelOrderAccepts(o) /\ cancelOrder(o) /\ UNCHANGED calls

SpecRace == InitRace /\ [][NextRace]_vars

(***************************************************************************)
(* Properties                                                              *)
(***************************************************************************)

recordsOf(prog, orderId, stage) == Cardinality(findIds(prog, orderId, stage))

\* Some create operation of the program accepts this call.
someCreateAccepts(orderId, stage, data) ==
    \/ serviceCreateAccepts(stage, orderId, data)
    \/ formCreateAccepts(orderId, stage, data)
    \/ oldCreateAccepts(orderId, stage, data)

AtMostOneRecordPerStage ==
    \A o \in Orders, s \in ProgressStage : recordsOf(progress, o, s) <= 1

CreateOfExistingStageRejected ==
    \A o \in Orders, s \in ProgressStage, d \in Payloads :
        recordsOf(progress, o, s) >= 1 => ~someCreateAccepts(o, s, d)

NoRecordAddedToExistingStage ==
    \A o \in Orders, s \in ProgressStage :
        recordsOf(progress, o, s) >= 1 => recordsOf(progress', o, s) <= recordsOf(progress, o, s)

\* C1: whatever creates, updates and deletes ran, every (order, stage) pair has
\* at most one progress record; a create for a pair that already has a record
\* is rejected by every create operation, and no step adds a record to such a
\* pair.
C1_OneRecordPerStage ==
    /\ [](AtMostOneRecordPerStage /\ CreateOfExistingStageRejected)
    /\ [][NoRecordAddedToExistingStage]_vars

\* A stage of o1 has its record, a later stage was created after it, and the
\* last call was rejected while every create for the recorded stages is refused.
C1_Witness ==
    /\ recordsOf(progress, "o1", "warehouse") = 1
    /\ recordsOf(progress, "o1", "shipping") = 1
    /\ response = "error"
    /\ \A d \in Payloads : ~someCreateAccepts("o1", "warehouse", d)

\* The progress records of one order.
orderRecords(prog, orderId) ==
    [id \in {i \in DOMAIN prog : prog[i].order_id = orderId} |-> prog[id]]

\* A step adds a record of this stage to the order.
recordAdded(orderId, stage) ==
    recordsOf(progress', orderId, stage) > recordsOf(progress, orderId, stage)

\* A step removes a record of this stage from the order.
recordRemoved(orderId, stage) ==
    recordsOf(progress', orderId, stage) < recordsOf(progress, orderId, stage)

\* C2: a step adds a shipping record to an order only if, before the step, the
\* order has a warehouse record whose status is true.
C2_ShippingCreateNeedsWarehouse ==
    [][\A o \in Orders :
          recordAdded(o, "shipping") =>
              \E id \in findIds(progress, o, "warehouse") :
                  progress[id].data.status = "true"]_vars

\* C3: a step adds an applied record to an order only if, before the step, the
\* order has a shipping record with status true and date_received set.
C3_AppliedCreateNeedsReceivedShipping ==
    [][\A o \in Orders :
          recordAdded(o, "applied") =>
              \E id \in findIds(progress, o, "shipping") :
                  /\ progress[id].data.status = "true"
                  /\ progress[id].data.date_received # Undefined]_vars

\* C4: a step adds a result record to an order only if, before the step, the
\* order has an applied record with est_applied_area > 0.
C4_ResultCreateNeedsAppliedArea ==
    [][\A o \in Orders :
          recordAdded(o, "result") =>
              \E id \in findIds(progress, o, "applied") :
                  progress[id].data.est_applied_area > 0]_vars

\* The status the cascade assigns to an order's records: delivered if a
\* shipping record has date_received, else shipped if a shipping record has
\* status true and date_shipping, else warehouse if a warehouse record has
\* status true, else pending.
cascadeStatus(prog, orderId) ==
    IF \E id \in findIds(prog, orderId, "shipping") :
           prog[id].data.date_received # Undefined
        THEN "delivered"
    ELSE IF \E id \in findIds(prog, orderId, "shipping") :
                /\ prog[id].data.status = "true"
                /\ prog[id].data.date_shipping # Undefined
        THEN "shipped"
    ELSE IF \E id \in findIds(prog, orderId, "warehouse") :
                prog[id].data.status = "true"
        THEN "warehouse"
    ELSE "pending"

\* C5: on every record set, each status derivation of the program returns the
\* status of the cascade.
C5_DerivationIsCascade ==
    \A o \in Orders :
        /\ determineOrderStatus(progress, o) = cascadeStatus(progress, o)
        /\ formDetermineOrderStatus(progress, o) = cascadeStatus(progress, o)
        /\ legacyDetermineOrderStatus(progress, o) = cascadeStatus(progress, o)

\* C6: after a step that adds, changes or removes a progress record of an
\* order, the order's status is the status derived from its records.
C6_StatusFollowsRecords ==
    [][\A o \in DOMAIN orderStatus :
          orderRecords(progress', o) # orderRecords(progress, o) =>
              orderStatus'[o] = determineOrderStatus(progress', o)]_vars

\* C7: while an order is cancelled (only cancelOrder sets that status), no step
\* changes its progress records or its status, and completeOrder is refused.
C7_CancelledIsFinal ==
    /\ [](\A o \in DOMAIN orderStatus :
              orderStatus[o] = "cancelled" => ~completeOrderAccepts(o))
    /\ [][\A o \in DOMAIN orderStatus :
              orderStatus[o] = "cancelled" =>
                  /\ orderStatus'[o] = "cancelled"
                  /\ orderRecords(progress', o) = orderRecords(progress, o)]_vars

\* C8: the call that follows a successful completeOrder leaves the order
\* completed and its progress records as they are, and cancelOrder is refused.
C8_CompletedIsFinal ==
    /\ [](\A o \in DOMAIN orderStatus :
              orderStatus[o] = "completed" => ~cancelOrderAccepts(o))
    /\ [][\A o \in DOMAIN orderStatus :
              (response = "Order completed successfully!" /\ orderStatus[o] = "completed") =>
                  /\ orderStatus'[o] = "completed"
                  /\ orderRecords(progress', o) = orderRecords(progress, o)]_vars

\* Every delete operation of the program accepts this record id.
everyDeleteAccepts(id) ==
    /\ serviceDeleteAccepts(progress[id].stage, id)
    /\ deleteOrderProgressAccepts(id)
    /\ formDeleteAccepts(id)
    /\ oldDeleteAccepts(id)

\* C9: no step removes the shipping record of an order that has an applied or
\* a result record; a shipping record of an order with neither, the order being
\* neither cancelled nor completed, is accepted by every delete.
C9_ShippingDeleteRule ==
    /\ [][\A o \in Orders :
              (recordsOf(progress, o, "applied") + recordsOf(progress, o, "result") > 0)
                  => ~recordRemoved(o, "shipping")]_vars
    /\ [](\A id \in DOMAIN progress :
              (/\ progress[id].stage = "shipping"
               /\ orderStatus[progress[id].order_id] \notin {"cancelled", "completed"}
               /\ recordsOf(progress, progress[id].order_id, "applied") = 0
               /\ recordsOf(progress, progress[id].order_id, "result") = 0)
                  => everyDeleteAccepts(id))

\* C10: no step removes the record of a stage of an order that has a record of
\* a later stage.
C10_NoDeleteBelowLaterStage ==
    [][\A o \in Orders, s \in ProgressStage :
          (\E later \in ProgressStage :
               indexOf(later) > indexOf(s) /\ recordsOf(progress, o, later) > 0)
              => ~recordRemoved(o, s)]_vars

\* C11: completeOrder accepts an order exactly when the order exists, is
\* neither completed nor cancelled, and its result stage is complete for the
\* stage-status query; the step after which completeOrder reports success has
\* set the status to completed, and a refused call changes nothing.
C11_CompleteOrderExactly ==
    /\ [](\A o \in Orders :
              completeOrderAccepts(o) <=>
                  /\ o \in DOMAIN orderStatus
                  /\ orderStatus[o] \notin {"completed", "cancelled"}
                  /\ getAllStagesStatus(progress, o)["result"])
    /\ [][\A o \in DOMAIN orderStatus :
              /\ (response' = "Order completed successfully!" /\ orderStatus'[o] # orderStatus[o])
                     => orderStatus'[o] = "completed"
              /\ response' = "error" => orderStatus'[o] = orderStatus[o]]_vars

\* C12: cancelOrder accepts an order exactly when the order exists and is
\* neither completed nor cancelled; the step in which it reports success sets
\* that order's status to cancelled and changes no progress record and no
\* other order; a step that reports an error changes nothing.
C12_CancelOrderExactly ==
    /\ [](\A o \in Orders :
              cancelOrderAccepts(o) <=>
                  /\ o \in DOMAIN orderStatus
                  /\ orderStatus[o] \notin {"completed", "cancelled"})
    /\ [][response' = "Order cancelled successfully!" =>
              /\ progress' = progress
              /\ \E o \in DOMAIN orderStatus :
                    /\ orderStatus[o] \notin {"completed", "cancelled"}
                    /\ orderStatus' = [orderStatus EXCEPT ![o] = "cancelled"]]_vars
    /\ [][response' = "error" => UNCHANGED <<orderStatus, progress>>]_vars

\* cancelOrder has just succeeded on an order that has progress records.
C12_Witness ==
    /\ response = "Order cancelled successfully!"
    /\ orderStatus["o1"] = "cancelled"
    /\ recordsOf(progress, "o1", "warehouse") = 1
    /\ recordsOf(progress, "o1", "shipping") = 1

\* C13: a step whose call reports failure leaves the progress records and the
\* order statuses exactly as they were, also when the failure is the status
\* write that follows the record write.
C13_FailureChangesNothing ==
    [][response' = "error" => UNCHANGED <<orderStatus, progress>>]_vars

\* The payload fields a stage's schemas know; a validated payload of the stage
\* carries no other field.
stageFields(stage) ==
    CASE stage = "warehouse" -> {"status"}
      [] stage = "shipping"  -> {"status", "date_shipping", "date_received"}
      [] stage = "applied"   -> {"status", "est_applied_area", "actual_applied_area"}
      [] stage = "result"    -> {"status", "yield_amount"}

hasShapeOf(stage, data) ==
    \A f \in DOMAIN data \ stageFields(stage) : data[f] = EmptyData[f]

\* A step rewrites the payload of this stored record.
payloadRewritten(id) ==
    /\ id \in DOMAIN progress'
    /\ progress'[id].data # progress[id].data

\* C14: a step that rewrites the payload of a stored record leaves a payload of
\* the stored record's stage, and rewrites no record of a cancelled order,
\* whatever stage and order id came with the record id.
C14_UpdateUsesStoredRecord ==
    [][\A id \in DOMAIN progress :
          payloadRewritten(id) =>
              /\ hasShapeOf(progress[id].stage, progress'[id].data)
              /\ orderStatus[progress[id].order_id] # "cancelled"]_vars

\* C15: getNextAvailableStage returns a stage that is incomplete and preceded
\* only by complete stages in the order warehouse, shipping, applied, result,
\* and returns null exactly when all four stages are complete.
C15_NextStageIsFirstIncomplete ==
    \A o \in Orders :
        LET next     == getNextAvailableStage(progress, o)
            complete == getAllStagesStatus(progress, o)
        IN  /\ next = "null" <=> \A s \in ProgressStage : complete[s]
            /\ next # "null" =>
                  /\ next \in ProgressStage
                  /\ ~complete[next]
                  /\ \A s \in ProgressStage : indexOf(s) < indexOf(next) => complete[s]

\* A later stage is complete while an earlier one is not: the query answers the
\* earlier one.
C15_Witness ==
    /\ getAllStagesStatus(progress, "o1")["warehouse"]
    /\ ~getAllStagesStatus(progress, "o1")["shipping"]
    /\ getAllStagesStatus(progress, "o1")["applied"]
    /\ getNextAvailableStage(progress, "o1") = "shipping"

\* All four stages are complete and the query answers null.
C15_WitnessAllComplete ==
    /\ \A s \in ProgressStage : getAllStagesStatus(progress, "o1")[s]
    /\ getNextAvailableStage(progress, "o1") = "null"

\* The first stage the completeness map reports incomplete, "null" if none.
firstIncomplete(complete) ==
    IF \A s \in ProgressStage : complete[s]
    THEN "null"
    ELSE CHOOSE s \in ProgressStage :
             /\ ~complete[s]
             /\ \A t \in ProgressStage : indexOf(t) < indexOf(s) => complete[t]

\* C16: the summary is determined by the per-stage completeness map:
\* completedStages is the set of complete stages, the percentage is 25 times
\* their number, isCompleted holds exactly when all four are complete,
\* currentStage is the first incomplete stage and nextStage the stage right
\* after it (null when currentStage is result or null).
C16_SummaryFromCompleteness ==
    \A o \in Orders :
        LET summary  == getProgressSummary(progress, o)
            complete == getAllStagesStatus(progress, o)
            done     == {s \in ProgressStage : complete[s]}
            current  == firstIncomplete(complete)
        IN  /\ summary.completedStages = done
            /\ summary.overallProgress = 25 * Cardinality(done)
            /\ summary.isCompleted <=> (done = ProgressStage)
            /\ summary.currentStage = current
            /\ summary.nextStage = IF current \in {"result", "null"}
                                      THEN "null"
                                      ELSE stages[indexOf(current) + 1]

\* Warehouse and applied are complete, shipping is not: half done, current
\* stage shipping, next stage applied.
C16_Witness ==
    /\ getProgressSummary(progress, "o1").completedStages = {"warehouse", "applied"}
    /\ getProgressSummary(progress, "o1").overallProgress = 50
    /\ getProgressSummary(progress, "o1").currentStage = "shipping"
    /\ getProgressSummary(progress, "o1").nextStage = "applied"
    /\ ~getProgressSummary(progress, "o1").isCompleted

\* The completeness of a stage as a property of its record: warehouse and
\* shipping by status true, applied by est_applied_area > 0, result by a boolean
\* status; a stage with no record is incomplete.
stageComplete(prog, orderId, stage) ==
    \E id \in findIds(prog, orderId, stage) :
        CASE stage = "warehouse" -> prog[id].data.status = "true"
          [] stage = "shipping"  -> prog[id].data.status = "true"
          [] stage = "applied"   -> prog[id].data.est_applied_area > 0
          [] stage = "result"    -> prog[id].data.status \in {"true", "false"}

\* C17: for every order and stage, the stage-status queries report the stage
\* complete exactly when its record makes it complete.
C17_StageStatusQuery ==
    \A o \in Orders, s \in ProgressStage :
        /\ getAllStagesStatus(progress, o)[s] <=> stageComplete(progress, o, s)
        /\ getProgressStagesStatus(progress, o)[s] <=> stageComplete(progress, o, s)


\* The shipping payload constraint: date_shipping present when status is true,
\* date_received not earlier than date_shipping, neither date after the
\* current time.
shippingPayloadRule(data) ==
    /\ (data.status = "true" => defined(data.date_shipping))
    /\ (defined(data.date_received) /\ defined(data.date_shipping) =>
            data.date_received >= data.date_shipping)
    /\ (defined(data.date_shipping) => data.date_shipping <= Now)
    /\ (defined(data.date_received) => data.date_received <= Now)

\* C18: a create or update stores a shipping payload only if the payload meets
\* the shipping constraint, so every stored shipping record meets it.
C18_ShippingPayloadValidated ==
    \A id \in DOMAIN progress :
        progress[id].stage = "shipping" => shippingPayloadRule(progress[id].data)


\* The result payload constraint: yield_amount present when status is true,
\* absent or zero when status is false.
resultPayloadRule(data) ==
    /\ (data.status = "true" => defined(data.yield_amount))
    /\ (data.status = "false" =>
            (~defined(data.yield_amount) \/ data.yield_amount = 0))

\* C19: every stored result record meets the result constraint (so
\* result {status: true} without yield_amount is never stored), and once applied
\* is complete a create of result {status: true, yield_amount: 50} on an order
\* with no result record, neither cancelled nor completed, is accepted.
C19_ResultPayloadValidated ==
    /\ \A id \in DOMAIN progress :
          progress[id].stage = "result" => resultPayloadRule(progress[id].data)
    /\ \A o \in DOMAIN orderStatus :
          LET d == Payload("true", Undefined, Undefined, Undefined, Undefined, 50)
          IN  (/\ isCompleted(progress, "applied", o)
               /\ findIds(progress, o, "result") = {}
               /\ orderStatus[o] \notin {"cancelled", "completed"})
              => /\ serviceCreateAccepts("result", o, d)
                 /\ formCreateAccepts(o, "result", d)


\* Two requests of different callers for the same (order, stage) that have
\* both returned.
bothReturned(c1, c2) ==
    /\ c1 # c2
    /\ calls[c1].pc = "done" /\ calls[c2].pc = "done"
    /\ calls[c1].order_id = calls[c2].order_id
    /\ calls[c1].stage = calls[c2].stage

\* C20: however the steps of two creates for one (order, stage) interleave,
\* the pair never has more than one record, and when one caller was answered
\* with success the other was answered "already exists".
C20_ConcurrentCreateOneRecord ==
    /\ \A o \in Orders, s \in ProgressStage : recordsOf(progress, o, s) <= 1
    /\ \A c1, c2 \in Callers :
          (bothReturned(c1, c2) /\ calls[c1].response = "success"
             /\ schemaAccepts(calls[c2].stage, calls[c2].data))
          => calls[c2].response = "already exists"


\* C22: a step that changes an order's status to completed is a successful
\* completeOrder, and one that changes it to cancelled is a successful
\* cancelOrder; every other status change writes pending, warehouse, shipped
\* or delivered.
C22_TerminalStatusOnlyByOrderActions ==
    [][\A o \in DOMAIN orderStatus :
          orderStatus'[o] # orderStatus[o] =>
              /\ orderStatus'[o] = "completed" =>
                     response' = "Order completed successfully!"
              /\ orderStatus'[o] = "cancelled" =>
                     response' = "Order cancelled successfully!"]_vars

\* C24: an order with a result record has an applied record, and an order
\* with an applied record has a shipping record.
C24_LaterStageHasEarlierRecord ==
    \A o \in Orders :
        /\ findIds(progress, o, "result") # {} => findIds(progress, o, "applied") # {}
        /\ findIds(progress, o, "applied") # {} => findIds(progress, o, "shipping") # {}

\* C25: an order with a shipping record has a warehouse record whose status
\* is true.
C25_ShippingHasReadyWarehouse ==
    \A o \in Orders :
        findIds(progress, o, "shipping") # {} =>
            \E id \in findIds(progress, o, "warehouse") :
                progress[id].data.status = "true"

\* C26: the stages reported complete form a prefix of warehouse, shipping,
\* applied, result, and the summary's completedStages are exactly the stages
\* before its currentStage.
C26_CompleteStagesFormPrefix ==
    \A o \in Orders :
        LET complete == getAllStagesStatus(progress, o)
            summary  == getProgressSummary(progress, o)
            before   == IF summary.currentStage = "null"
                           THEN ProgressStage
                           ELSE {stages[i] : i \in 1..(indexOf(summary.currentStage) - 1)}
        IN  /\ \A i, j \in 1..Len(stages) :
                  (i < j /\ complete[stages[j]]) => complete[stages[i]]
            /\ summary.completedStages = before

\* C27: every stored record meets the validation rules of its stage: a
\* shipping record with date_received has status true and a date_shipping, an
\* applied record has est_applied_area > 0, a result record with status true
\* has a yield_amount; and an order whose derived status is delivered has a
\* complete shipping stage.
C27_StoredRecordsAreValid ==
    /\ \A id \in DOMAIN progress :
          LET data == progress[id].data IN
          CASE progress[id].stage = "shipping" ->
                  defined(data.date_received) =>
                      data.status = "true" /\ defined(data.date_shipping)
            [] progress[id].stage = "applied" ->
                  defined(data.est_applied_area) /\ data.est_applied_area > 0
            [] progress[id].stage = "result" ->
                  data.status = "true" => defined(data.yield_amount)
            [] OTHER -> TRUE
    /\ \A o \in Orders :
          determineOrderStatus(progress, o) = "delivered" =>
              isCompleted(progress, "shipping", o)

\* C30: an order whose status is completed has a result record whose status
\* is true.
C30_CompletedHasTrueResult ==
    \A o \in DOMAIN orderStatus :
        orderStatus[o] = "completed" =>
            \E id \in findIds(progress, o, "result") :
                progress[id].data.status = "true"


\* A payload the validation of its stage accepts.
validPayload(stage, data) ==
    /\ schemaAccepts(stage, data)
    /\ validateData(stage, schemaParse(stage, data))

\* Every update operation accepts a valid payload for a stored record of an
\* order that is not cancelled, whatever the other stages of the order are.
ValidUpdateAccepted ==
    \A id \in DOMAIN progress, d \in Payloads :
        LET o == progress[id].order_id
            s == progress[id].stage
        IN  (orderStatus[o] # "cancelled" /\ validPayload(s, d)) =>
                /\ serviceUpdateAccepts(s, id, o, d)
                /\ formUpdateAccepts(id, o, s, d)
                /\ oldUpdateAccepts(id, d)

\* A rewritten record keeps its order and stage and holds a submitted payload
\* as its stage's schema parses it, with nothing of the old payload merged in.
UpdateReplacesPayload ==
    \A id \in DOMAIN progress :
        payloadRewritten(id) =>
            /\ progress'[id].order_id = progress[id].order_id
            /\ progress'[id].stage = progress[id].stage
            /\ \E d \in Payloads :
                  progress'[id].data = schemaParse(progress[id].stage, d)

\* C23: an update of a stored record with a payload valid for its stage is
\* accepted on every order that is not cancelled, with no check of the earlier
\* stages; it replaces the stored payload wholesale and leaves the record's
\* id, order and stage unchanged.
C23_UpdateNotRegated ==
    /\ []ValidUpdateAccepted
    /\ [][UpdateReplacesPayload]_vars


\* C28: a step that changes the progress records of an order changes neither
\* the records nor the status of any other order, and re-derives the status of
\* the order whose records it changed.
C28_OnlyTheOwningOrderChanges ==
    [][\A a \in DOMAIN orderStatus :
          orderRecords(progress', a) # orderRecords(progress, a) =>
              /\ orderStatus'[a] = determineOrderStatus(progress', a)
              /\ \A b \in DOMAIN orderStatus \ {a} :
                    /\ orderRecords(progress', b) = orderRecords(progress, b)
                    /\ orderStatus'[b] = orderStatus[b]]_vars


\* No mutation is in flight.
quiescent == \A c \in Callers : calls[c].pc \in {"idle", "done"}

\* C21: once the concurrent mutations of an order have all finished, the
\* status of an order that was not cancelled is the status derived from its
\* records as they then are.
C21_NoStaleStatusAfterRace ==
    \A o \in DOMAIN orderStatus :
        (quiescent /\ orderStatus[o] # "cancelled") =>
            orderStatus[o] = determineOrderStatus(progress, o)

\* C29: no step of a stage mutation in flight changes the status of an order
\* that is cancelled.
C29_InFlightMutationKeepsCancelled ==
    [][\A o \in DOMAIN orderStatus :
          orderStatus[o] = "cancelled" => orderStatus'[o] = "cancelled"]_vars

====
